---- MODULE Spec2Model ----
(***************************************************************************)
(* A model of postprocess/process_astrom.py: the parser of astrometry.net  *)
(* solution reports (parse_txt), the WCS matrix derivation (cd2cd), the    *)
(* header builder (build_hdr, document, comments, lsp) and the driver      *)
(* (run).                                                                  *)
(*                                                                         *)
(* Text is modelled at character level: a string is a sequence of          *)
(* one-character strings, a report is a sequence of lines as readlines()   *)
(* returns them.  Python floats are modelled as binary floating-point      *)
(* numbers with a Prec-bit significand, round-to-nearest-even, and an      *)
(* unbounded exponent (the values of the model stay far from the range     *)
(* limits of a double), together with nan and the two infinities.          *)
(***************************************************************************)
EXTENDS Integers, Sequences, FiniteSets, TLC

VARIABLES
    op,      \* the operation performed last: "none", "parse_txt", "build_hdr", "cd2cd", "run"
    data,    \* the report handed to parse_txt: the lines as readlines() returns them
    txt,     \* what parse_txt did: a returned record or a raised exception
    img,     \* the image dictionary handed to build_hdr
    wcs,     \* the attributes build_hdr assigned to the WCS object w (lines 189-205)
    hdr,     \* what build_hdr did: a returned header or a raised exception
    cdin,    \* the arguments of a direct call of cd2cd
    cdout,   \* what that call of cd2cd did
    ret,     \* what run did
    pcs,     \* concurrent runs: each thread's position in build_hdr/document/comments/lsp
    loc,     \* concurrent runs: each thread's local variables
    lsp_p,   \* the default accumulator of lsp, p=[] (one list, made at def time)
    document_docs,  \* the keys of the default dict of document, docs={"DATE": ...}
    comments_stuff  \* the keys of the default dict of comments, stuff={"Written by": s}

vars == <<op, data, txt, img, wcs, hdr, cdin, cdout, ret, pcs, loc, lsp_p,
          document_docs, comments_stuff>>

(***************************************************************************)
(* Bounds of the model.                                                    *)
(***************************************************************************)
\* significand width of the modelled floats (a double has 53 bits)
Prec == 8

(***************************************************************************)
(* Python strings and lists.                                               *)
(***************************************************************************)
Min(a, b) == IF a < b THEN a ELSE b
Max(a, b) == IF a > b THEN a ELSE b

\* str.strip() removes these characters
IsSpace(c) == c \in {" ", "\n", "\t"}

SetMin(S) == CHOOSE x \in S : \A y \in S : x <= y
SetMax(S) == CHOOSE x \in S : \A y \in S : x >= y

\* Strip removing leading white space and the line end only, as
\* d.lstrip().rstrip("\n") would: trailing blanks stay
Strip_KeepsTrailingBlanks(s) ==
    LET keep == {i \in 1..Len(s) : ~IsSpace(s[i])}
        ends == {i \in 1..Len(s) : s[i] # "\n"}
    IN  IF keep = {} THEN <<>> ELSE SubSeq(s, SetMin(keep), SetMax(ends))

\* d.strip(): from the first to the last character that is not white space
Strip(s) ==
    LET keep == {i \in 1..Len(s) : ~IsSpace(s[i])}
    IN  IF keep = {} THEN <<>> ELSE SubSeq(s, SetMin(keep), SetMax(keep))

\* the position of a slice bound k in a string of length n, as Python computes it
SliceIdx(k, n) == IF k < 0 THEN Max(n + k, 0) ELSE Min(k, n)

\* s[lo:hi]
PySlice(s, lo, hi) ==
    LET a == SliceIdx(lo, Len(s))
        b == SliceIdx(hi, Len(s))
    IN  IF b > a THEN SubSeq(s, a + 1, b) ELSE <<>>

\* s[lo:]
PySliceFrom(s, lo) == PySlice(s, lo, Len(s))

\* s.split(sep) for a one-character separator: one piece more than there
\* are separators, the k-th piece lying between separators k - 1 and k, so
\* that two adjacent separators have an empty string between them
Split(s, sep) ==
    LET at == {i \in 1..Len(s) : s[i] = sep}
        pos(k) == IF k = 0 THEN 0
                  ELSE IF k > Cardinality(at) THEN Len(s) + 1
                  ELSE CHOOSE i \in at : Cardinality({j \in at : j < i}) = k - 1
    IN  [k \in 1..(Cardinality(at) + 1) |-> SubSeq(s, pos(k - 1) + 1, pos(k) - 1)]

\* l[-1] of a non-empty list
Last(l) == l[Len(l)]

(***************************************************************************)
(* Python floats.  A finite float is n * 2^e with n = 0 (and e = 0) or     *)
(* 2^(Prec-1) <= |n| < 2^Prec, so that equal numbers are equal records.    *)
(***************************************************************************)
RECURSIVE Pow2(_)
Pow2(n) == IF n = 0 THEN 1 ELSE 2 * Pow2(n - 1)

RECURSIVE Pow10(_)
Pow10(n) == IF n = 0 THEN 1 ELSE 10 * Pow10(n - 1)

Abs(x) == IF x < 0 THEN -x ELSE x
Sgn(x) == IF x < 0 THEN -1 ELSE 1

NaN == [k |-> "nan", n |-> 0, e |-> 0]
Inf(s) == [k |-> "inf", n |-> s, e |-> 0]
Fin(n, e) == [k |-> "fin", n |-> n, e |-> e]
Zero == Fin(0, 0)

IsFinite(x) == x.k = "fin"
IsZero(x) == x.k = "fin" /\ x.n = 0
\* the sign of a float that is not nan
SignOf(x) == Sgn(x.n)

\* num / den * 2^e scaled so that 2^(Prec-1) <= num / den < 2^Prec
RECURSIVE Normalize(_, _, _)
Normalize(num, den, e) ==
    IF num < Pow2(Prec - 1) * den THEN Normalize(2 * num, den, e - 1)
    ELSE IF num >= Pow2(Prec) * den THEN Normalize(num, 2 * den, e + 1)
    ELSE <<num, den, e>>

\* the float s * q * 2^e or its successor in magnitude, for a quotient q with
\* remainder r of a division by den: round to nearest, ties to even
RoundQuotient(s, q, r, den, e) ==
    LET up == 2 * r > den \/ (2 * r = den /\ q % 2 = 1)
    IN  IF up /\ q + 1 = Pow2(Prec) THEN Fin(s * Pow2(Prec - 1), e + 1)
        ELSE IF up THEN Fin(s * (q + 1), e)
        ELSE Fin(s * q, e)

RoundNormalized(s, t) == RoundQuotient(s, t[1] \div t[2], t[1] % t[2], t[2], t[3])

\* the float nearest to s * num / den * 2^e (num >= 0, den > 0), ties to even
Round(s, num, den, e) ==
    IF num = 0 THEN Zero ELSE RoundNormalized(s, Normalize(num, den, e))

\* float(i) of an int, and a float literal such as 3600.
IntToFloat(i) == Round(Sgn(i), Abs(i), 1, 0)

\* -x
FNeg(x) == IF x.k = "nan" THEN NaN ELSE [x EXCEPT !.n = -x.n]

\* x * y (IEEE 754; Python and numpy agree)
FMul(x, y) ==
    IF x.k = "nan" \/ y.k = "nan" THEN NaN
    ELSE IF x.k = "inf" \/ y.k = "inf"
         THEN IF IsZero(x) \/ IsZero(y) THEN NaN ELSE Inf(SignOf(x) * SignOf(y))
    ELSE Round(SignOf(x) * SignOf(y), Abs(x.n) * Abs(y.n), 1, x.e + y.e)

\* x / y for a divisor that is not zero (IEEE 754; Python and numpy agree)
FDivNZ(x, y) ==
    IF x.k = "nan" \/ y.k = "nan" THEN NaN
    ELSE IF x.k = "inf" THEN (IF y.k = "inf" THEN NaN ELSE Inf(SignOf(x) * SignOf(y)))
    ELSE IF y.k = "inf" THEN Zero
    ELSE Round(SignOf(x) * SignOf(y), Abs(x.n), Abs(y.n), x.e - y.e)

\* x / y of a numpy float64 x (an element of an ndarray): a zero divisor gives
\* nan or an infinity and a RuntimeWarning, never an exception
NpDiv(x, y) ==
    IF IsZero(y)
    THEN (IF x.k = "nan" \/ IsZero(x) THEN NaN ELSE Inf(SignOf(x)))
    ELSE FDivNZ(x, y)


(***************************************************************************)
(* float(s) of a string: optional sign, then nan, inf or infinity in any   *)
(* letter case, or decimal digits with at most one point and at least one  *)
(* digit.  Exponents and underscores, which float() also accepts, are left *)
(* out: no report of the model has them.  The decimal value is rounded     *)
(* once, to the nearest float, as float() does.                            *)
(***************************************************************************)
Digits == {"0", "1", "2", "3", "4", "5", "6", "7", "8", "9"}

DigitVal(c) ==
    CASE c = "0" -> 0 [] c = "1" -> 1 [] c = "2" -> 2 [] c = "3" -> 3 [] c = "4" -> 4
      [] c = "5" -> 5 [] c = "6" -> 6 [] c = "7" -> 7 [] c = "8" -> 8 [] c = "9" -> 9

\* the letters of nan and infinity in lower case
Lower(c) ==
    CASE c = "N" -> "n" [] c = "A" -> "a" [] c = "I" -> "i" [] c = "F" -> "f"
      [] c = "T" -> "t" [] c = "Y" -> "y" [] OTHER -> c

LowerStr(s) == [i \in 1..Len(s) |-> Lower(s[i])]

\* the int written by a string of digits
RECURSIVE DigitsVal(_)
DigitsVal(s) ==
    IF s = <<>> THEN 0 ELSE 10 * DigitsVal(SubSeq(s, 1, Len(s) - 1)) + DigitVal(s[Len(s)])

ValueError == [ok |-> FALSE, v |-> NaN]
FloatOk(v) == [ok |-> TRUE, v |-> v]

\* float() of the characters after the sign sg
FloatOfBody(sg, body, word, parts) ==
    IF word = <<"n", "a", "n">> THEN FloatOk(NaN)
    ELSE IF word = <<"i", "n", "f">> \/ word = <<"i", "n", "f", "i", "n", "i", "t", "y">>
         THEN FloatOk(Inf(sg))
    ELSE IF /\ \A i \in 1..Len(body) : body[i] \in Digits \cup {"."}
            /\ Len(parts) <= 2
            /\ \E i \in 1..Len(body) : body[i] \in Digits
         THEN FloatOk(Round(sg, DigitsVal(parts[1] \o (IF Len(parts) = 2 THEN parts[2] ELSE <<>>)),
                            Pow10(IF Len(parts) = 2 THEN Len(parts[2]) ELSE 0), 0))
    ELSE ValueError

FloatOfSigned(sg, body) == FloatOfBody(sg, body, LowerStr(body), Split(body, "."))

FloatOfStripped(t) ==
    IF t # <<>> /\ Head(t) = "-" THEN FloatOfSigned(-1, Tail(t))
    ELSE IF t # <<>> /\ Head(t) = "+" THEN FloatOfSigned(1, Tail(t))
    ELSE FloatOfSigned(1, t)

\* float(s): [ok |-> TRUE, v |-> the float], or ok = FALSE for a ValueError
PyFloat(s) == FloatOfStripped(Strip(s))

(***************************************************************************)
(* Outcomes of a call: a returned value or a raised exception.             *)
(***************************************************************************)
\* arg: what the exception carries (float()'s ValueError names the string it
\* refused; the other exceptions of this program carry no part of the report)
Raised(e, arg, reads) == [kind |-> "err", err |-> e, arg |-> arg, reads |-> reads]
\* reads: the indexes of the report's lines whose tokens were read
Returned(rec, reads) == [kind |-> "ret", rec |-> rec, reads |-> reads]
NotCalled == [kind |-> "none"]

\* a value that may be None
None == [some |-> FALSE, v |-> <<>>]
Some(v) == [some |-> TRUE, v |-> v]

(***************************************************************************)
(* parse_filename                                                          *)
(***************************************************************************)
\* dict(zip(("bibcode", "page", "figN"), values)).get(key)
parse_filename(f) ==
    LET split == Split(f, "-")
        values == [split EXCEPT ![Len(split)] = Split(split[Len(split)], ".")[1]]
        get(i) == IF i <= Len(values) THEN Some(values[i]) ELSE None
    IN  [bibcode |-> get(1), page |-> get(2), figN |-> get(3)]

(***************************************************************************)
(* parse_txt                                                               *)
(***************************************************************************)
\* the converter table u
UnitNames == {<<"a", "r", "c", "s", "e", "c", "o", "n", "d", "s">>,
              <<"a", "r", "c", "m", "i", "n", "u", "t", "e", "s">>,
              <<"d", "e", "g", "r", "e", "e", "s">>}

u(us) ==
    CASE us = <<"a", "r", "c", "s", "e", "c", "o", "n", "d", "s">> -> IntToFloat(3600)
      [] us = <<"a", "r", "c", "m", "i", "n", "u", "t", "e", "s">> -> IntToFloat(60)
      [] us = <<"d", "e", "g", "r", "e", "e", "s">> -> IntToFloat(1)

\* UnitKnown with the test left out: every unit goes on to the table
UnitKnown_Any(us) == TRUE

\* the test of line 118, negated: us in u
UnitKnown(us) == us \in UnitNames

\* data = [d.strip() for d in f.readlines()]
StripAll(lines) == [i \in 1..Len(lines) |-> Strip(lines[i])]

\* IsUnsolved with the comparison wrong: fewer than 3 lines
IsUnsolved_FewerThan3(d) == Len(d) < 3

\* the test that ends parse_txt at once: if len(data) == 3
IsUnsolved(d) == Len(d) = 3

\* ToDegrees multiplying by the factor instead of dividing
ToDegrees_Times(x, us) == FMul(x, u(us))

\* xs, ys = map(lambda x: x / u[us], (xs, ys)): the divisor is never zero
ToDegrees(x, us) == FDivNZ(x, u(us))

\* Lines 107-137, for stripped lines d that are not 3 in number, one statement
\* after the other.  A list index past the end raises IndexError, float()
\* raises ValueError, the bare raise of line 119 raises with no exception to
\* re-raise.  r is the record so far.

\* the return of lines 125-137
ParseRotationValue(d, r, tok, rt) ==
    IF ~rt.ok THEN Raised("ValueError", tok, {0, 1, 2, 3, 4})
    ELSE Returned([solved |-> TRUE,
                   ra |-> r.ra,
                   dec |-> r.dec,
                   inverted |-> r.inverted,
                   bibcode |-> r.pf.bibcode,
                   figN |-> r.pf.figN,
                   page |-> r.pf.page,
                   xs |-> r.xs,
                   ys |-> r.ys,
                   rt |-> rt.v,
                   txt |-> d],
                  {0, 1, 2, 3, 4})

ParseRotationToken(d, r, t4) ==
    IF Len(t4) < 6 THEN Raised("IndexError", <<>>, {0, 1, 2, 3, 4})
    ELSE ParseRotationValue(d, r, t4[6], PyFloat(t4[6]))

\* line 123: rt = float(data[4].split(" ")[5])
ParseRotation(d, r) ==
    IF Len(d) < 5 THEN Raised("IndexError", <<>>, {0, 1, 2, 3})       \* data[4]
    ELSE ParseRotationToken(d, r, Split(d[5], " "))

\* lines 118-121: the unit is looked up, and xs and ys are converted
ParseUnit(d, r, xs, ys, us) ==
    IF ~UnitKnown(us) THEN Raised("BareRaise", <<>>, {0, 1, 2, 3})
    ELSE IF us \notin UnitNames THEN Raised("KeyError", <<>>, {0, 1, 2, 3})  \* u[us]
    ELSE ParseRotation(d, [pf |-> r.pf, inverted |-> r.inverted, ra |-> r.ra,
                           dec |-> r.dec, xs |-> ToDegrees(xs, us),
                           ys |-> ToDegrees(ys, us)])

\* line 117: us = data[3].split(" ")[3]
ParseHeightValue(d, r, xs, t3, ys) ==
    IF ~ys.ok THEN Raised("ValueError", t3[3], {0, 1, 2, 3})
    ELSE IF Len(t3) < 4 THEN Raised("IndexError", <<>>, {0, 1, 2, 3})
    ELSE ParseUnit(d, r, xs.v, ys.v, t3[4])

\* line 116: ys = float(data[3].split(" ")[2])
ParseWidthValue(d, r, t3, xs) ==
    IF ~xs.ok THEN Raised("ValueError", t3[1], {0, 1, 2, 3})
    ELSE IF Len(t3) < 3 THEN Raised("IndexError", <<>>, {0, 1, 2, 3})
    ELSE ParseHeightValue(d, r, xs, t3, PyFloat(t3[3]))

ParseFieldTokens(d, r, t3) == ParseWidthValue(d, r, t3, PyFloat(t3[1]))

\* line 115: xs = float(data[3].split(" ")[0])
ParseField(d, r) ==
    IF Len(d) < 4 THEN Raised("IndexError", <<>>, {0, 1, 2})          \* data[3]
    ELSE ParseFieldTokens(d, r, Split(d[4], " "))

ParseDecValue(d, r, tok, dec) ==
    IF ~dec.ok THEN Raised("ValueError", tok, {0, 1, 2})
    ELSE ParseField(d, [pf |-> r.pf, inverted |-> r.inverted, ra |-> r.ra,
                        dec |-> dec.v])

\* line 113: dec = float(data[2].split(" ")[1][0:-1])
ParseRaValue(d, r, t2, tok, ra) ==
    IF ~ra.ok THEN Raised("ValueError", tok, {0, 1, 2})
    ELSE IF Len(t2) < 2 THEN Raised("IndexError", <<>>, {0, 1, 2})
    ELSE ParseDecValue(d, [pf |-> r.pf, inverted |-> r.inverted, ra |-> ra.v],
                       PySlice(t2[2], 0, -1), PyFloat(PySlice(t2[2], 0, -1)))

ParseCentreTokens(d, r, t2) ==
    ParseRaValue(d, r, t2, PySlice(t2[1], 1, -1), PyFloat(PySlice(t2[1], 1, -1)))

\* line 112: ra = float(data[2].split(" ")[0][1:-1])
ParseCentre(d, r) ==
    IF Len(d) < 3 THEN Raised("IndexError", <<>>, {0, 1})             \* data[2]
    ELSE ParseCentreTokens(d, r, Split(d[3], " "))

\* lines 110-111: inverted = data[1].split(" ")[0][1:] == 'inverted'
ParseSummary(d, pf) ==
    IF Len(d) < 2 THEN Raised("IndexError", <<>>, {0})                \* data[1]
    ELSE ParseCentre(d, [pf |-> pf,
                         inverted |-> PySliceFrom(Split(d[2], " ")[1], 1)
                                        = <<"i", "n", "v", "e", "r", "t", "e", "d">>])

\* lines 107-108: pf = parse_filename(data[0].split(" ")[-1])
ParseSolved(d) ==
    IF Len(d) < 1 THEN Raised("IndexError", <<>>, {})                 \* data[0]
    ELSE ParseSummary(d, parse_filename(Last(Split(d[1], " "))))

\* parse_txt(t) for a file whose readlines() gives `lines`
ParseStripped(d) ==
    IF IsUnsolved(d) THEN Returned([solved |-> FALSE], {}) ELSE ParseSolved(d)

parse_txt(lines) == ParseStripped(StripAll(lines))

(***************************************************************************)
(* cd2cd                                                                   *)
(***************************************************************************)
\* the rotation angles of the model, in degrees
Deg0 == Zero
Deg31 == Round(1, 3125, 100, 0)
DegM120 == Round(-1, 120, 1, 0)

\* math.cos(math.radians(x)) and math.sin(math.radians(x)) of a finite x: the
\* library's values for the angles of the model, to four decimals, rounded to
\* a float; cos and sin of 0 are exactly 1 and 0
Cos(x) ==
    CASE x = Deg0 -> Round(1, 1, 1, 0)
      [] x = Deg31 -> Round(1, 8549, 10000, 0)
      [] x = DegM120 -> Round(-1, 5000, 10000, 0)

Sin(x) ==
    CASE x = Deg0 -> Zero
      [] x = Deg31 -> Round(1, 5188, 10000, 0)
      [] x = DegM120 -> Round(-1, 8660, 10000, 0)

\* CdMatrix with the sign of the sine on the wrong row
CdMatrix_SineSignSwapped(cdelt1, cdelt2, c, sn) ==
    <<<<FMul(cdelt1, c), FMul(FNeg(cdelt1), sn)>>,
      <<FMul(cdelt2, sn), FMul(cdelt2, c)>>>>

\* lines 161-164: the direct form, from the cosine c and the sine sn of crota2
CdMatrix(cdelt1, cdelt2, c, sn) ==
    <<<<FMul(cdelt1, c), FMul(cdelt1, sn)>>,
      <<FMul(FNeg(cdelt2), sn), FMul(cdelt2, c)>>>>

\* lines 166-169: the normalized form, each row of cd divided by its scale
\* (cd is an ndarray: numpy's division)
PcMatrix(cd, cdelt1, cdelt2) ==
    <<<<NpDiv(cd[1][1], cdelt1), NpDiv(cd[1][2], cdelt1)>>,
      <<NpDiv(cd[2][1], cdelt2), NpDiv(cd[2][2], cdelt2)>>>>

\* lines 166-174: the form asked for
Cd2cdReturn(cd, cdelt1, cdelt2, r) ==
    CASE r = "cd" -> Returned(cd, {})
      [] r = "pc" -> Returned(PcMatrix(cd, cdelt1, cdelt2), {})

\* cd2cd(cdelt1, cdelt2, crota2, ret) for ret "cd" or "pc".  math.radians of an
\* infinity is an infinity, of which math.cos raises ValueError; of nan, nan.
cd2cd(cdelt1, cdelt2, crota2, r) ==
    IF crota2.k = "inf" THEN Raised("ValueError", <<>>, {})
    ELSE IF crota2.k = "nan"
    THEN Cd2cdReturn(CdMatrix(cdelt1, cdelt2, NaN, NaN), cdelt1, cdelt2, r)
    ELSE Cd2cdReturn(CdMatrix(cdelt1, cdelt2, Cos(crota2), Sin(crota2)), cdelt1, cdelt2, r)

(***************************************************************************)
(* lsp, document, comments                                                 *)
(***************************************************************************)
\* lsp(l, s, p): p with the pieces of l, each of at most s characters, appended
RECURSIVE lsp(_, _, _)
lsp(l, s, p) ==
    IF Len(l) <= s THEN Append(p, l)
    ELSE lsp(PySliceFrom(l, s), s, Append(p, PySlice(l, 0, s)))

\* t = "  " and nt = 80 - 10 * len(t) of comments
CommentIndent == <<" ", " ">>
nt == 80 - 10 * Len(CommentIndent)

\* A COMMENT card.  "rule" is "-" * 70; "key" is a key k whose value is a list;
\* "line" is '|{0} {1}'.format(t * indent, text); "kv" is "{0} {1}".format(k, text).
Card(c, k, indent, text) == [c |-> c, k |-> k, indent |-> indent, text |-> text]
RuleCard == Card("rule", "", 0, <<>>)

\* the module-level s of line 26, as characters
WrittenBy == <<"p", "r", "o", "c", "e", "s", "s", "_", "a", "s", "t", "r", "o", "m",
               ".", "p", "y">>

\* lines 284-287 for one line l of a list value: the cards of its pieces
LineCards(l) ==
    LET ll == lsp(l, nt, <<>>)
    IN  [i \in 1..Len(ll) |-> Card("line", "", i, ll[i])]

RECURSIVE ListCards(_)
ListCards(v) == IF v = <<>> THEN <<>> ELSE LineCards(Head(v)) \o ListCards(Tail(v))

\* comments(hdr, stuff={'Original Header': lines}): the cards added to hdr, the
\* keys of stuff in the order they were inserted ("Written by" is added to the
\* caller's dict at line 275, after 'Original Header')
comments(lines) ==
    <<RuleCard, Card("key", "Original Header", 0, <<>>)>>
      \o ListCards(lines)
      \o <<Card("kv", "Written by", 0, WrittenBy)>>

\* document(hdr, docs): the documentation keys written to hdr; "DATE" is not in
\* the docs of build_hdr, so line 260 adds fits2day(), the time `now` of the
\* call.  vkey leaves these five keys as they are (upper case, at most 8 long).
document(docs, now) ==
    [REFERENC |-> docs.REFERENC, REF_FIGN |-> docs.REF_FIGN,
     REF_PAGE |-> docs.REF_PAGE, CROTAX |-> docs.CROTAX, DATE |-> now]

(***************************************************************************)
(* build_hdr                                                               *)
(***************************************************************************)
\* parse_img: {"xs": xs, "ys": ys, ...}, or {} when the image cannot be opened
Image(xs, ys) == [has |-> TRUE, xs |-> xs, ys |-> ys]
NoImage == [has |-> FALSE, xs |-> 0, ys |-> 0]

\* ldpix = lambda x: math.floor(x / 2), of a size in pixels
ldpix(x) == x \div 2

\* txt['xs'] / img['xs'] of line 196, for a size in pixels that is not 0
PixelScale(field, pixels) == FDivNZ(field, IntToFloat(pixels))

\* lines 204-205, with what cd2cd did
WcsAssigned(im, rec, cdelt1, cdelt2, pc) ==
    IF pc.kind = "err" THEN pc
    ELSE Returned([ctype |-> <<"RA---TAN", "DEC--TAN">>,
                   cunit |-> <<"deg", "deg">>,
                   crpix |-> <<ldpix(im.xs), ldpix(im.ys)>>,
                   crval |-> <<rec.ra, rec.dec>>,
                   pc |-> pc.rec,
                   cdelt |-> <<cdelt1, cdelt2>>], {})

WcsScaled(im, rec, cdelt1, cdelt2) ==
    WcsAssigned(im, rec, cdelt1, cdelt2, cd2cd(cdelt1, cdelt2, rec.rt, "pc"))

\* lines 183-205: the attributes assigned to w.wcs, or the exception raised on
\* the way: KeyError for a key the dictionary lacks, ZeroDivisionError for a
\* float divided by the int 0, whatever cd2cd raises.
BuildWcs(im, rec) ==
    IF ~im.has THEN Raised("KeyError", <<>>, {})                      \* img['xs']
    ELSE IF "ra" \notin DOMAIN rec THEN Raised("KeyError", <<>>, {})  \* txt['ra']
    ELSE IF im.xs = 0 \/ im.ys = 0 THEN Raised("ZeroDivisionError", <<>>, {})
    ELSE WcsScaled(im, rec, PixelScale(rec.xs, im.xs), PixelScale(rec.ys, im.ys))

\* whether every number of the attributes w is finite
WcsFinite(w) ==
    /\ \A i \in 1..2 : IsFinite(w.cdelt[i]) /\ IsFinite(w.crval[i])
    /\ \A i \in 1..2 : \A j \in 1..2 : IsFinite(w.pc[i][j])

\* w.to_header() is astropy's: whether it refuses a w with a number that is not
\* finite or a scale of zero is the library's choice, so both outcomes are kept
ToHeaderOutcomes(w) ==
    IF WcsFinite(w) /\ ~IsZero(w.cdelt[1]) /\ ~IsZero(w.cdelt[2])
    THEN {"ok"} ELSE {"ok", "err"}

\* lines 207-217, after w.to_header() returned
Header(w, rec, now) ==
    [w |-> w,
     docs |-> document([REFERENC |-> rec.bibcode, REF_FIGN |-> rec.figN,
                        REF_PAGE |-> rec.page, CROTAX |-> rec.rt], now),
     comment |-> comments(rec.txt)]

\* lines 207-217, with what lines 183-205 did
HeaderOf(w, rec, now, lib) ==
    IF w.kind = "err" THEN w
    ELSE IF lib = "err" THEN Raised("WcsError", <<>>, {})
    ELSE Returned(Header(w.rec, rec, now), {})

\* build_hdr(img, txt) at time `now`, to_header() behaving as `lib`
build_hdr(im, rec, now, lib) == HeaderOf(BuildWcs(im, rec), rec, now, lib)

(***************************************************************************)
(* The reports of the model: every combination of the lines below, each    *)
(* cut to its first 0 to 5 lines or followed by a sixth line, and each      *)
(* as a file with plain lines or with lines in extra white space.           *)
(***************************************************************************)
\* the first line: its last token is the image's file name
NameFull == <<"t", " ", "a", "-", "2", "-", "3", ".", "p">>
NameShort == <<"t", " ", "a", "-", "2">>
NameLines == {NameFull, NameShort}

\* the second line: the solver's summary
SolvedInverted == <<"#", "i", "n", "v", "e", "r", "t", "e", "d", " ", "s">>
SolvedPlain ==
    <<"#", "n", "o", "n", "-", "i", "n", "v", "e", "r", "t", "e", "d", " ", "s">>
SolvedLines == {SolvedInverted, SolvedPlain}

\* the third line: (RA, DEC)
CentreGood == <<"(", "9", ",", " ", "6", ")">>
CentreNan == <<"(", "n", "a", "n", ",", " ", "6", ")">>
CentreInf == <<"(", "9", ",", " ", "i", "n", "f", ")">>
CentreWord == <<"(", "x", ",", " ", "6", ")">>
CentreAlone == <<"(", "9", ")">>
CentreLines == {CentreGood, CentreNan, CentreInf, CentreWord, CentreAlone}

\* the fourth line: <width> x <height> <unit>
FieldArcmin ==
    <<"8", " ", "x", " ", "6", " ", "a", "r", "c", "m", "i", "n", "u", "t", "e", "s">>
FieldArcsec ==
    <<"8", " ", "x", " ", "6", " ", "a", "r", "c", "s", "e", "c", "o", "n", "d", "s">>
FieldDeg == <<"8", " ", "x", " ", "6", " ", "d", "e", "g", "r", "e", "e", "s">>
FieldParsecs == <<"8", " ", "x", " ", "6", " ", "p", "a", "r", "s", "e", "c", "s">>
FieldZero == <<"0", " ", "x", " ", "6", " ", "d", "e", "g", "r", "e", "e", "s">>
FieldNoUnit == <<"8", " ", "x", " ", "6">>
FieldWord == <<"a", " ", "x", " ", "6", " ", "d", "e", "g", "r", "e", "e", "s">>
FieldTwoSpaces == <<"8", " ", " ", "x", " ", "6", " ", "d", "e", "g", "r", "e", "e", "s">>
FieldLines == {FieldArcmin, FieldArcsec, FieldDeg, FieldParsecs, FieldZero, FieldNoUnit, FieldWord, FieldTwoSpaces}

\* the fifth line: the rotation is its sixth token
RotGood ==
    <<"F", " ", "r", " ", "a", ":", " ", "u", " ", "i", " ", "3", "1", ".", "2", "5",
      " ", "d">>
RotZero == <<"F", " ", "r", " ", "a", ":", " ", "u", " ", "i", " ", "0", " ", "d">>
RotShort == <<"F", " ", "r", " ", "a", ":", " ", "u", " ", "i">>
RotWord == <<"F", " ", "r", " ", "a", ":", " ", "u", " ", "i", " ", "x", " ", "d">>
RotInf ==
    <<"F", " ", "r", " ", "a", ":", " ", "u", " ", "i", " ", "i", "n", "f", " ", "d">>
RotLines == {RotGood, RotZero, RotShort, RotWord, RotInf}

ExtraLine == <<"x">>

\* the five-line reports
FiveLines ==
    {<<a, b, c, d, e>> : a \in NameLines, b \in SolvedLines, c \in CentreLines,
                          d \in FieldLines, e \in RotLines}

\* the reports as lists of lines without their white space
Cores ==
    UNION {{SubSeq(r, 1, n) : n \in 0..5} \cup {r \o <<ExtraLine>>} : r \in FiveLines}

\* a line as readlines() returns it: plain, or indented and with trailing blanks
AsRead(style, l) ==
    IF style = "plain" THEN l \o <<"\n">> ELSE <<" ">> \o l \o <<" ", "\n">>

AsFile(style, r) == [i \in 1..Len(r) |-> AsRead(style, r[i])]

Reports == {AsFile(style, r) : style \in {"plain", "spaced"}, r \in Cores}

\* the reports that run is given: those of one image name and one summary line
RunReports ==
    {AsFile("plain", r) : r \in {c \in Cores : Len(c) >= 2 => (c[1] = NameFull /\ c[2] = SolvedPlain)}}

\* the images: sizes in pixels, 0 included, and the image that cannot be opened
Images == {Image(x, y) : x \in {0, 4}, y \in {0, 5}} \cup {NoImage}

\* the times fits2day() may return
Times == {1, 2}

\* the arguments of the direct calls of cd2cd: every significand with two
\* exponents for cdelt1, three scales for cdelt2, zero included
Scales1 ==
    {Fin(n, e) : n \in Pow2(Prec - 1)..(Pow2(Prec) - 1), e \in {-10, -9}} \cup {Zero}
Scales2 == {Round(1, 3, 1000, 0), Round(1, 1, 4, 0), Zero}
Angles == {Deg0, Deg31, DegM120, NaN, Inf(1)}

(***************************************************************************)
(* run                                                                     *)
(***************************************************************************)
\* RunBuilds without the test of txt['solved']
RunBuilds_Always(rec) == TRUE

\* hdr = txt['solved'] and build_hdr(img, txt) or None: the builder is called
\* only for a solved record, and a header is never falsy
RunBuilds(rec) == rec.solved

\* whether run calls build_hdr
RunCalls(t) == t.kind = "ret" /\ RunBuilds(t.rec)

\* line 322, with what parse_txt did (t) and what build_hdr did, if called (h)
RunOutcome(t, im, h) ==
    IF t.kind = "err" THEN [kind |-> "err", err |-> t.err, called |-> FALSE]
    ELSE IF h.kind = "none"
    THEN [kind |-> "ret", hdr |-> None, txt |-> t.rec, img |-> im, called |-> FALSE]
    ELSE IF h.kind = "err" THEN [kind |-> "err", err |-> h.err, called |-> TRUE]
    ELSE [kind |-> "ret", hdr |-> Some(h.rec), txt |-> t.rec, img |-> im, called |-> TRUE]

\* lines 318-322, with what parse_txt did
RunParsed(t, im, now, lib) ==
    RunOutcome(t, im, IF RunCalls(t) THEN build_hdr(im, t.rec, now, lib) ELSE NotCalled)

\* lines 317-322, both files present
run(lines, im, now, lib) == RunParsed(parse_txt(lines), im, now, lib)

(***************************************************************************)
(* The state machine: one call at a time of parse_txt, then possibly of    *)
(* build_hdr on the record it returned; of cd2cd; of run.                  *)
(***************************************************************************)
NoArgs == [cdelt1 |-> Zero, cdelt2 |-> Zero, crota2 |-> Zero, ret |-> "cd"]
NoThreads == [t \in {} |-> 0]

Idle ==
    /\ op = "none"
    /\ data = <<>>
    /\ txt = NotCalled
    /\ img = NoImage
    /\ wcs = NotCalled
    /\ hdr = NotCalled
    /\ cdin = NoArgs
    /\ cdout = NotCalled
    /\ ret = NotCalled

DefaultsAtImport ==
    /\ lsp_p = <<>>
    /\ document_docs = {"DATE"}
    /\ comments_stuff = {"Written by"}

Init ==
    /\ Idle
    /\ DefaultsAtImport
    /\ pcs = NoThreads
    /\ loc = NoThreads

\* parse_txt(t)
ParseTxt ==
    /\ op = "none"
    /\ \E lines \in Reports :
          /\ data' = lines
          /\ txt' = parse_txt(lines)
    /\ op' = "parse_txt"
    /\ UNCHANGED <<img, wcs, hdr, cdin, cdout, ret, pcs, loc, lsp_p, document_docs,
                   comments_stuff>>

\* build_hdr(img, txt) on the record parse_txt returned, solved or not
BuildHdr ==
    /\ op = "parse_txt"
    /\ txt.kind = "ret"
    /\ \E im \in Images, now \in Times :
          /\ img' = im
          /\ wcs' = BuildWcs(im, txt.rec)
          /\ \E lib \in (IF wcs'.kind = "ret" THEN ToHeaderOutcomes(wcs'.rec) ELSE {"ok"}) :
                hdr' = HeaderOf(wcs', txt.rec, now, lib)
    /\ op' = "build_hdr"
    /\ UNCHANGED <<data, txt, cdin, cdout, ret, pcs, loc, lsp_p, document_docs,
                   comments_stuff>>

\* cd2cd(cdelt1, cdelt2, crota2, ret)
Cd2cd ==
    /\ op = "none"
    /\ \E c1 \in Scales1, c2 \in Scales2, th \in Angles, r \in {"cd", "pc"} :
          /\ cdin' = [cdelt1 |-> c1, cdelt2 |-> c2, crota2 |-> th, ret |-> r]
          /\ cdout' = cd2cd(c1, c2, th, r)
    /\ op' = "cd2cd"
    /\ UNCHANGED <<data, txt, img, wcs, hdr, ret, pcs, loc, lsp_p, document_docs,
                   comments_stuff>>

\* run(f): with a file missing it returns {} at line 315; else it parses, loads
\* the image and, for a solved record, builds
Run ==
    /\ op = "none"
    /\ \/ /\ \E missing \in {1, 2} : ret' = [kind |-> "ret", missing |-> missing]
          /\ UNCHANGED <<data, txt, img, wcs, hdr>>
       \/ \E lines \in RunReports, im \in Images, now \in Times :
             /\ data' = lines
             /\ img' = im
             /\ txt' = parse_txt(lines)
             /\ wcs' = IF RunCalls(txt') THEN BuildWcs(im, txt'.rec) ELSE NotCalled
             /\ \E lib \in (IF wcs'.kind = "ret" THEN ToHeaderOutcomes(wcs'.rec) ELSE {"ok"}) :
                   hdr' = IF RunCalls(txt') THEN HeaderOf(wcs', txt'.rec, now, lib)
                          ELSE NotCalled
             /\ ret' = RunOutcome(txt', im, hdr')
    /\ op' = "run"
    /\ UNCHANGED <<cdin, cdout, pcs, loc, lsp_p, document_docs, comments_stuff>>

\* the call is over: main() maps run over the next file
NextCall ==
    /\ op # "none"
    /\ op' = "none"
    /\ data' = <<>>
    /\ txt' = NotCalled
    /\ img' = NoImage
    /\ wcs' = NotCalled
    /\ hdr' = NotCalled
    /\ cdin' = NoArgs
    /\ cdout' = NotCalled
    /\ ret' = NotCalled
    /\ UNCHANGED <<pcs, loc, lsp_p, document_docs, comments_stuff>>

Next == ParseTxt \/ BuildHdr \/ Cd2cd \/ Run \/ NextCall

Spec == Init /\ [][Next]_vars

(***************************************************************************)
(* Concurrent runs.  Each thread calls run on its own files; build_hdr,    *)
(* document, comments and lsp are taken one step at a time, so that the    *)
(* threads interleave wherever one of them reads or writes a list or a     *)
(* dict.  The objects that outlive a call are the default arguments, made  *)
(* once when the module is imported: lsp_p, document_docs, comments_stuff. *)
(***************************************************************************)
NThreads == 2
Threads == 1..NThreads

\* a line longer than nt characters: lsp cuts it in two
LongName == <<"t", " ">> \o [i \in 1..(nt + 1) |-> "a"]

\* the reports of the concurrent runs: a solved one and an unsolved one
ConcReports ==
    {AsFile("plain", <<LongName, SolvedPlain, CentreGood, FieldArcmin, RotGood>>),
     AsFile("plain", <<NameFull, SolvedPlain, CentreGood>>)}

\* which object each call site passes: build_hdr its own dicts (lines 214 and
\* 215), comments a new list (line 285: lsp(l, nt, []))
BuildHdrDocsArg == "own"
BuildHdrStuffArg == "own"
\* CommentsLspArg as lsp(l, nt) would be: the default accumulator
CommentsLspArg_Default == "default"
CommentsLspArg == "own"

IdleLoc ==
    [lines |-> <<>>, im |-> NoImage, now |-> 0, lib |-> "ok",
     rec |-> [solved |-> FALSE], w |-> NotCalled, docs |-> NotCalled,
     cards |-> <<>>, items |-> <<>>, k |-> 0, j |-> 0, i |-> 0,
     rest |-> <<>>, ref |-> "own", acc |-> <<>>, result |-> NotCalled]

InitConc ==
    /\ Idle
    /\ DefaultsAtImport
    /\ pcs = [t \in Threads |-> "idle"]
    /\ loc = [t \in Threads |-> IdleLoc]

\* the variables of the calls made one at a time
sequential == <<op, data, txt, img, wcs, hdr, cdin, cdout, ret>>

Goto(t, where, l) ==
    /\ pcs' = [pcs EXCEPT ![t] = where]
    /\ loc' = [loc EXCEPT ![t] = l]

\* the list a thread's lsp appends to
Accumulator(t) == IF loc[t].ref = "own" THEN loc[t].acc ELSE lsp_p

\* run(f) is called on the thread's files
T_Call(t) ==
    /\ pcs[t] = "idle"
    /\ \E lines \in ConcReports :
          Goto(t, "parse", [IdleLoc EXCEPT !.lines = lines, !.im = Image(4, 5)])
    /\ UNCHANGED <<lsp_p, document_docs, comments_stuff>>
    /\ UNCHANGED sequential

\* lines 317-320: parse_txt, parse_img, and the test of txt['solved']
T_Parsed(t, r) ==
    IF ~RunCalls(r)
    THEN Goto(t, "done", [loc[t] EXCEPT !.result = RunOutcome(r, loc[t].im, NotCalled)])
    ELSE Goto(t, "wcs", [loc[t] EXCEPT !.rec = r.rec])

T_Parse(t) ==
    /\ pcs[t] = "parse"
    /\ T_Parsed(t, parse_txt(loc[t].lines))
    /\ UNCHANGED <<lsp_p, document_docs, comments_stuff>>
    /\ UNCHANGED sequential

\* lines 183-207 of build_hdr
T_WcsBuilt(t, w) ==
    IF w.kind = "err"
    THEN Goto(t, "done", [loc[t] EXCEPT
             !.result = [kind |-> "err", err |-> w.err, called |-> TRUE]])
    ELSE \E lib \in ToHeaderOutcomes(w.rec) :
            IF lib = "err"
            THEN Goto(t, "done", [loc[t] EXCEPT !.lib = lib,
                     !.result = [kind |-> "err", err |-> "WcsError", called |-> TRUE]])
            ELSE Goto(t, "document", [loc[t] EXCEPT !.lib = lib, !.w = w.rec])

T_Wcs(t) ==
    /\ pcs[t] = "wcs"
    /\ T_WcsBuilt(t, BuildWcs(loc[t].im, loc[t].rec))
    /\ UNCHANGED <<lsp_p, document_docs, comments_stuff>>
    /\ UNCHANGED sequential

\* document(hdr, docs=docs): the dict it is given lacks "DATE", which line 260
\* adds to that dict; the default dict has "DATE" from the import
T_Document(t) ==
    /\ pcs[t] = "document"
    /\ \E now \in Times :
          LET own == [REFERENC |-> loc[t].rec.bibcode, REF_FIGN |-> loc[t].rec.figN,
                      REF_PAGE |-> loc[t].rec.page, CROTAX |-> loc[t].rec.rt]
          IN  Goto(t, "comments", [loc[t] EXCEPT !.now = now,
                      !.docs = IF BuildHdrDocsArg = "own" THEN document(own, now)
                               ELSE [DATE |-> 0]])
    /\ document_docs' = IF BuildHdrDocsArg = "own" THEN document_docs
                        ELSE document_docs \cup {"DATE"}
    /\ UNCHANGED <<lsp_p, comments_stuff>>
    /\ UNCHANGED sequential

\* lines 273-277 of comments: the rule, "Written by" added to the dict it is
\* given, and the dict's keys to go through
T_Comments(t) ==
    /\ pcs[t] = "comments"
    /\ Goto(t, "item", [loc[t] EXCEPT
            !.cards = <<RuleCard>>,
            !.items = IF BuildHdrStuffArg = "own"
                      THEN <<"Original Header", "Written by">> ELSE <<"Written by">>,
            !.k = 1])
    /\ comments_stuff' = IF BuildHdrStuffArg = "own" THEN comments_stuff
                         ELSE comments_stuff \cup {"Written by"}
    /\ UNCHANGED <<lsp_p, document_docs>>
    /\ UNCHANGED sequential

\* lines 277-281: the next key of stuff; after the last one comments and
\* build_hdr return and run returns the header
T_Item(t) ==
    /\ pcs[t] = "item"
    /\ LET l == loc[t]
       IN  IF l.k > Len(l.items)
           THEN Goto(t, "done", [l EXCEPT
                    !.result = RunOutcome(Returned(l.rec, {}), l.im,
                                          Returned([w |-> l.w, docs |-> l.docs,
                                                    comment |-> l.cards], {}))])
           ELSE IF l.items[l.k] = "Original Header"
           THEN Goto(t, "line", [l EXCEPT
                    !.cards = Append(l.cards, Card("key", "Original Header", 0, <<>>)),
                    !.j = 1])
           ELSE Goto(t, "item", [l EXCEPT
                    !.cards = Append(l.cards, Card("kv", l.items[l.k], 0, WrittenBy)),
                    !.k = l.k + 1])
    /\ UNCHANGED <<lsp_p, document_docs, comments_stuff>>
    /\ UNCHANGED sequential

\* lines 284-285: the next line l of the list, and the call lsp(l, nt, [])
T_Line(t) ==
    /\ pcs[t] = "line"
    /\ LET l == loc[t]
       IN  IF l.j > Len(l.rec.txt)
           THEN Goto(t, "item", [l EXCEPT !.k = l.k + 1])
           ELSE Goto(t, "lsp", [l EXCEPT !.rest = l.rec.txt[l.j],
                                         !.ref = CommentsLspArg, !.acc = <<>>])
    /\ UNCHANGED <<lsp_p, document_docs, comments_stuff>>
    /\ UNCHANGED sequential

\* one activation of lsp (lines 237-242): a piece is appended to p, and the
\* last activation returns p
T_Lsp(t) ==
    /\ pcs[t] = "lsp"
    /\ LET l == loc[t]
           last == Len(l.rest) <= nt
           piece == IF last THEN l.rest ELSE PySlice(l.rest, 0, nt)
           rest == IF last THEN <<>> ELSE PySliceFrom(l.rest, nt)
       IN  /\ Goto(t, IF last THEN "emit" ELSE "lsp",
                   [l EXCEPT !.rest = rest, !.i = 0,
                             !.acc = IF l.ref = "own" THEN Append(l.acc, piece) ELSE l.acc])
           /\ lsp_p' = IF l.ref = "own" THEN lsp_p ELSE Append(lsp_p, piece)
    /\ UNCHANGED <<document_docs, comments_stuff>>
    /\ UNCHANGED sequential

\* lines 286-287: the next piece of the list lsp returned becomes a card
T_Emit(t) ==
    /\ pcs[t] = "emit"
    /\ LET l == loc[t]
           ll == Accumulator(t)
       IN  IF l.i < Len(ll)
           THEN Goto(t, "emit", [l EXCEPT
                    !.cards = Append(l.cards, Card("line", "", l.i + 1, ll[l.i + 1])),
                    !.i = l.i + 1])
           ELSE Goto(t, "line", [l EXCEPT !.j = l.j + 1])
    /\ UNCHANGED <<lsp_p, document_docs, comments_stuff>>
    /\ UNCHANGED sequential

\* the caller has the result; the thread takes the next file
T_Return(t) ==
    /\ pcs[t] = "done"
    /\ Goto(t, "idle", IdleLoc)
    /\ UNCHANGED <<lsp_p, document_docs, comments_stuff>>
    /\ UNCHANGED sequential

NextConc ==
    \E t \in Threads :
       \/ T_Call(t)
       \/ T_Parse(t)
       \/ T_Wcs(t)
       \/ T_Document(t)
       \/ T_Comments(t)
       \/ T_Item(t)
       \/ T_Line(t)
       \/ T_Lsp(t)
       \/ T_Emit(t)
       \/ T_Return(t)

SpecConc == InitConc /\ [][NextConc]_vars

(***************************************************************************)
(* Properties.                                                             *)
(***************************************************************************)
\* parse_txt was called in this state (by itself or by run) and txt is what it did
Parsed == txt.kind # "none"
ParsedSolved == txt.kind = "ret" /\ txt.rec.solved
ParsedUnsolved == txt.kind = "ret" /\ ~txt.rec.solved

\* the tokens of line k (from 0) of the report, as the spec counts them
TokensOf(k) == Split(Strip(data[k + 1]), " ")

\* C1: a report of exactly 3 lines, whatever they hold, makes parse_txt return
\* the record {solved: false} and nothing else, without an error and without
\* reading a token of any line.
C1_ThreeLinesUnsolved ==
    (Parsed /\ Len(data) = 3) =>
        /\ txt.kind = "ret"
        /\ DOMAIN txt.rec = {"solved"}
        /\ ~txt.rec.solved
        /\ txt.reads = {}

\* a 3-line report whose third line is no (RA, DEC) pair was parsed
C1_Witness ==
    /\ op = "parse_txt"
    /\ Len(data) = 3
    /\ data[3] = AsRead("spaced", CentreWord)
    /\ ParsedUnsolved

\* C2: no header comes from an unsolved record.  In run, an unsolved record
\* means build_hdr is not called and the result's hdr is None; build_hdr called
\* on an unsolved record raises instead of returning; a header that run or
\* build_hdr returns belongs to a solved record.
C2_NoHeaderFromUnsolved ==
    /\ (op = "run" /\ ParsedUnsolved) =>
          /\ hdr = NotCalled
          /\ wcs = NotCalled
          /\ ret.kind = "ret"
          /\ ~ret.called
          /\ ~ret.hdr.some
    /\ (op = "build_hdr" /\ ParsedUnsolved) => hdr.kind = "err"
    /\ (op = "run" /\ ret.kind = "ret" /\ "hdr" \in DOMAIN ret /\ ret.hdr.some) =>
          (ret.txt.solved /\ ret.called)
    /\ hdr.kind = "ret" => ParsedSolved

\* run was given an unsolved report and a good image
C2_Witness ==
    /\ op = "run"
    /\ ParsedUnsolved
    /\ img = Image(4, 5)
    /\ ret.kind = "ret"
    /\ ~ret.hdr.some

\* the table of the spec: units per degree
PerDegree(unit) ==
    CASE unit = <<"a", "r", "c", "s", "e", "c", "o", "n", "d", "s">> -> 3600
      [] unit = <<"a", "r", "c", "m", "i", "n", "u", "t", "e", "s">> -> 60
      [] unit = <<"d", "e", "g", "r", "e", "e", "s">> -> 1

UnknownUnit ==
    /\ Parsed
    /\ Len(data) = 5
    /\ Len(TokensOf(3)) >= 4
    /\ TokensOf(3)[4] \notin UnitNames

\* the tokens parse_txt converts before it looks at the unit: RA, DEC, width, height
NumbersBeforeUnit ==
    /\ Len(TokensOf(2)) >= 2
    /\ PyFloat(PySlice(TokensOf(2)[1], 1, -1)).ok
    /\ PyFloat(PySlice(TokensOf(2)[2], 0, -1)).ok
    /\ PyFloat(TokensOf(3)[1]).ok
    /\ PyFloat(TokensOf(3)[3]).ok

\* C4 as stated: every 5-line report with a unit outside the table ends in the
\* unit error (the raise of line 119).
C4_AlwaysUnitError ==
    UnknownUnit => (txt.kind = "err" /\ txt.err = "BareRaise")

\* C4 as amended: every 5-line report with a unit outside the table ends in an
\* error and no record, the unit never being taken for a table entry; the
\* error is the unit error when the RA, DEC, width and height tokens are
\* numbers, and the ValueError or IndexError of the first bad one otherwise.
C4_UnknownUnitRaises ==
    UnknownUnit =>
        /\ txt.kind = "err"
        /\ NumbersBeforeUnit => txt.err = "BareRaise"
        /\ ~NumbersBeforeUnit => txt.err \in {"ValueError", "IndexError"}

\* "8 x 6 parsecs" after a good (RA, DEC) line ended in the unit error
C4_Witness ==
    /\ op = "parse_txt"
    /\ UnknownUnit
    /\ TokensOf(3) = Split(FieldParsecs, " ")
    /\ NumbersBeforeUnit
    /\ txt.kind = "err"
    /\ txt.err = "BareRaise"

\* C5: a solved record comes only from a report of exactly 5 lines, and a
\* report of any number of lines other than 3 or 5 ends in an error.
C5_OnlyFiveLinesSolved ==
    /\ ParsedSolved => Len(data) = 5
    /\ (Parsed /\ Len(data) \notin {3, 5}) => txt.kind = "err"

\* a number that is neither nan nor an infinity
AllFinite(m) == \A i \in 1..2 : \A j \in 1..2 : IsFinite(m[i][j])

\* C6: build_hdr never holds or returns a scale or a matrix entry that is not
\* finite: for a solved record of finite numbers, an image of width or height
\* 0 and a field of width or height 0 make it raise; and neither form that
\* cd2cd returns for finite arguments has an entry that is not finite.
C6_DegenerateGeometryRaises ==
    /\ (wcs.kind = "ret" /\ \A f \in {"ra", "dec", "xs", "ys", "rt"} : IsFinite(txt.rec[f])) =>
          /\ IsFinite(wcs.rec.cdelt[1])
          /\ IsFinite(wcs.rec.cdelt[2])
          /\ AllFinite(wcs.rec.pc)
    /\ (op = "build_hdr" /\ ParsedSolved /\ img.has
          /\ (img.xs = 0 \/ img.ys = 0 \/ IsZero(txt.rec.xs) \/ IsZero(txt.rec.ys))) =>
          hdr.kind = "err"
    /\ (/\ op = "cd2cd"
        /\ cdout.kind = "ret"
        /\ IsFinite(cdin.cdelt1) /\ IsFinite(cdin.cdelt2) /\ IsFinite(cdin.crota2)) =>
          AllFinite(cdout.rec)

\* cd2cd was called with scales above 0 and a finite angle, and returned
Positive(x) == IsFinite(x) /\ x.n > 0
Cd2cdOnPositive ==
    /\ op = "cd2cd"
    /\ Positive(cdin.cdelt1)
    /\ Positive(cdin.cdelt2)
    /\ IsFinite(cdin.crota2)
    /\ cdout.kind = "ret"

\* the matrix M of the spec for scales sx, sy and the angle th
Direct(sx, sy, th) ==
    <<<<FMul(sx, Cos(th)), FMul(sx, Sin(th))>>,
      <<FNeg(FMul(sy, Sin(th))), FMul(sy, Cos(th))>>>>

\* M rebuilt from the normalized form: P[i][j] * scale_i
Rebuilt(P, sx, sy) ==
    <<<<FMul(P[1][1], sx), FMul(P[1][2], sx)>>,
      <<FMul(P[2][1], sy), FMul(P[2][2], sy)>>>>

\* |r - m| <= 3 * 2^-Prec * |m|: r is m up to the rounding of one division and
\* one multiplication
CloseTo(r, m) ==
    IF ~IsFinite(r) \/ ~IsFinite(m) THEN FALSE
    ELSE IF r.n = 0 \/ m.n = 0 THEN r = m
    ELSE IF Abs(r.e - m.e) > 1 THEN FALSE
    ELSE LET e == Min(r.e, m.e)
             a == r.n * Pow2(r.e - e)
             b == m.n * Pow2(m.e - e)
         IN  Abs(a - b) * Pow2(Prec) <= 3 * Abs(b)

AllClose(R, M) == \A i \in 1..2 : \A j \in 1..2 : CloseTo(R[i][j], M[i][j])

\* C7 as stated: the direct form is M, and the normalized form times the
\* scales is M again, entry for entry.
C7_ExactRoundTrip ==
    Cd2cdOnPositive =>
        /\ cdin.ret = "cd" => cdout.rec = Direct(cdin.cdelt1, cdin.cdelt2, cdin.crota2)
        /\ cdin.ret = "pc" =>
              Rebuilt(cdout.rec, cdin.cdelt1, cdin.cdelt2)
                = Direct(cdin.cdelt1, cdin.cdelt2, cdin.crota2)

\* C7 as amended: the direct form is M; the normalized form times the scales
\* is M up to rounding (a relative error of at most 3 * 2^-Prec per entry);
\* and the PC and CDELT that build_hdr assigns are the normalized form and the
\* scales of the same M.
C7_RoundTripWithinRounding ==
    /\ Cd2cdOnPositive =>
          /\ cdin.ret = "cd" => cdout.rec = Direct(cdin.cdelt1, cdin.cdelt2, cdin.crota2)
          /\ cdin.ret = "pc" =>
                AllClose(Rebuilt(cdout.rec, cdin.cdelt1, cdin.cdelt2),
                         Direct(cdin.cdelt1, cdin.cdelt2, cdin.crota2))
    /\ (/\ wcs.kind = "ret"
        /\ Positive(wcs.rec.cdelt[1])
        /\ Positive(wcs.rec.cdelt[2])
        /\ IsFinite(txt.rec.rt)) =>
          AllClose(Rebuilt(wcs.rec.pc, wcs.rec.cdelt[1], wcs.rec.cdelt[2]),
                   Direct(wcs.rec.cdelt[1], wcs.rec.cdelt[2], txt.rec.rt))

\* the normalized form was returned for a rotated field, and times the scales
\* it is not M exactly
C7_Witness ==
    /\ Cd2cdOnPositive
    /\ cdin.ret = "pc"
    /\ cdin.crota2 = Deg31
    /\ Rebuilt(cdout.rec, cdin.cdelt1, cdin.cdelt2)
         # Direct(cdin.cdelt1, cdin.cdelt2, cdin.crota2)

\* C8: the calls keep no state.  Whatever the interleaving and whatever ran
\* before, a finished run has the result run gives for its own files, the
\* time of its document call and its to_header() alone; and the default
\* arguments of lsp, document and comments are as the import made them.
C8_RunsIndependent ==
    /\ DefaultsAtImport
    /\ \A t \in DOMAIN pcs :
          pcs[t] = "done" =>
              loc[t].result = run(loc[t].lines, loc[t].im, loc[t].now, loc[t].lib)

\* one thread has returned a header while another is inside lsp, one piece of
\* a long line already in its accumulator
C8_Witness ==
    /\ pcs[1] = "done"
    /\ loc[1].result.kind = "ret"
    /\ loc[1].result.called
    /\ pcs[2] = "lsp"
    /\ Len(loc[2].acc) = 1

\* C9: every number of a solved record is finite.
C9_SolvedIsFinite ==
    ParsedSolved => \A f \in {"ra", "dec", "xs", "ys", "rt"} : IsFinite(txt.rec[f])

\* C10 as stated: the lines of a solved record are the lines as they were read.
C10_LinesAsRead == ParsedSolved => txt.rec.txt = data

\* t is the line l without its leading and trailing white space
IsTrimOf(t, l) ==
    /\ t # <<>> => (~IsSpace(t[1]) /\ ~IsSpace(t[Len(t)]))
    /\ \E a \in 0..Len(l) :
          /\ a + Len(t) <= Len(l)
          /\ SubSeq(l, a + 1, a + Len(t)) = t
          /\ \A i \in 1..a : IsSpace(l[i])
          /\ \A i \in (a + Len(t) + 1)..Len(l) : IsSpace(l[i])

\* C10 as amended: the lines of a solved record are the report's lines in
\* their order, each without its leading and trailing white space (the line
\* end included) and otherwise character for character as read.
C10_LinesStripped ==
    ParsedSolved =>
        /\ Len(txt.rec.txt) = Len(data)
        /\ \A i \in 1..Len(data) : IsTrimOf(txt.rec.txt[i], data[i])

\* a report with indented lines and trailing blanks was parsed
C10_Witness ==
    /\ op = "parse_txt"
    /\ ParsedSolved
    /\ data[3] = AsRead("spaced", CentreGood)
    /\ txt.rec.txt[3] = CentreGood

====
